---- MODULE Spec2Model ----
(***************************************************************************)
(* Model of pkg/resource/cluster/cluster_read.go of                        *)
(* terraform-provider-eksctl: the read / plan / OIDC-load flows of the     *)
(* eksctl_cluster resource and the pure string and list functions they     *)
(* use.  Go strings are TLA+ strings; Len, SubSeq and \o act on them       *)
(* character by character.  Indices are 1-based, 0 standing for Go's -1.   *)
(***************************************************************************)
EXTENDS Integers, Sequences, FiniteSets, TLC

(***************************************************************************)
(* Bounds.                                                                 *)
(***************************************************************************)
\* entries in the eksctl iamidentitymapping output and in aws_auth_configmap
MaxMappings == 2
\* records in the eksctl get cluster output
MaxStates == 2

(***************************************************************************)
(* Go's strings package, as used by the source.                            *)
(***************************************************************************)
\* strings.HasPrefix
HasPrefix(s, p) == Len(s) >= Len(p) /\ SubSeq(s, 1, Len(p)) = p

\* s[i-1:] of Go for a 1-based i
From(s, i) == SubSeq(s, i, Len(s))

\* strings.TrimPrefix
TrimPrefix(s, p) == IF HasPrefix(s, p) THEN From(s, Len(p) + 1) ELSE s

\* the positions at which sep occurs in s
Occurrences(s, sep) ==
    {i \in 1..(Len(s) - Len(sep) + 1) : SubSeq(s, i, i + Len(sep) - 1) = sep}

\* strings.Index: the first occurrence (0 for Go's -1)
Index(s, sep) ==
    LET occ == Occurrences(s, sep)
    IN  IF occ = {} THEN 0 ELSE CHOOSE i \in occ : \A j \in occ : i <= j

\* strings.LastIndex: the last occurrence (0 for Go's -1)
LastIndex(s, sep) ==
    LET occ == Occurrences(s, sep)
    IN  IF occ = {} THEN 0 ELSE CHOOSE i \in occ : \A j \in occ : i >= j

\* strings.Split(s, sep)[0] for a non-empty sep
SplitFirst(s, sep) ==
    LET i == Index(s, sep)
    IN  IF i = 0 THEN s ELSE SubSeq(s, 1, i - 1)

RECURSIVE SplitAll(_, _)
\* strings.Split(s, sep) for a non-empty sep
SplitAll(s, sep) ==
    LET i == Index(s, sep)
    IN  IF i = 0 THEN <<s>>
        ELSE <<SubSeq(s, 1, i - 1)>> \o SplitAll(From(s, i + Len(sep)), sep)

RECURSIVE Replace(_, _, _)
\* strings.Replace(s, old, new, -1) for a non-empty old: every
\* non-overlapping occurrence, left to right
Replace(s, old, new) ==
    LET i == Index(s, old)
    IN  IF i = 0 THEN s
        ELSE SubSeq(s, 1, i - 1) \o new
                 \o Replace(From(s, i + Len(old)), old, new)

\* the characters of the modelled strings in ascending byte order
Alphabet == "\"-,/0123456789:ABC[]abcdeghilmnoprstuvwx{}"

\* position of the one-character string c in the byte order
Rank(c) == CHOOSE i \in 1..Len(Alphabet) : SubSeq(Alphabet, i, i) = c

RECURSIVE StrLess(_, _)
\* s < t of Go: lexicographic comparison of the bytes
StrLess(s, t) ==
    IF Len(t) = 0 THEN FALSE
    ELSE IF Len(s) = 0 THEN TRUE
    ELSE IF SubSeq(s, 1, 1) = SubSeq(t, 1, 1)
         THEN StrLess(From(s, 2), From(t, 2))
         ELSE Rank(SubSeq(s, 1, 1)) < Rank(SubSeq(t, 1, 1))

(***************************************************************************)
(* Values of the program.                                                  *)
(***************************************************************************)
\* the nil error
NoErr == ""

\* fmt.Errorf("<msg>: %w", err)
Wrap(msg, err) == msg \o ": " \o err

\* the nil *Cluster
NoCluster == [nil |-> TRUE, Name |-> "", Region |-> "", withOIDC |-> ""]

\* the nil *ClusterState
NoState == [nil |-> TRUE, Name |-> "", RoleArn |-> "", Issuer |-> "",
            SecurityGroupIds |-> <<>>]

\* names of clusters known to eksctl
ClusterNames == {"red", "blue"}

\* the kubeconfig_path a state file may carry
KubePath == "/home/a/kubeconfig"

\* what the local filesystem holds at kubeconfig_path: a file; nothing,
\* in an existing directory (so also for the empty path); nothing, a parent
\* component being a regular file
FSStates == {"file", "absent", "notdir"}

\* a file exists at the path
FileExists(f) == f = "file"

\* the error of os.Stat(path)
Stat(f) == CASE f = "file" -> NoErr
             [] f = "absent" -> "ENOENT"
             [] f = "notdir" -> "ENOTDIR"

\* os.IsNotExist(err)
IsNotExist(err) == err = "ENOENT"

\* results of the AWS target-group lookup for the name prefix
TargetGroupARNLists == {<<"tg-1">>}

(***************************************************************************)
(* ClusterState.GetOIDCProviderARN and its inputs.                         *)
(***************************************************************************)
\* GetOIDCProviderARN taking the id after the first slash of the issuer
GetOIDCProviderARN_idFromFirstSlash(s) ==
    "arn:aws:iam::"
        \o SplitFirst(TrimPrefix(s.RoleArn, "arn:aws:iam::"), ":")
        \o ":oidc-provider/oidc.eks."
        \o SplitFirst(TrimPrefix(s.Issuer, "https://oidc.eks."), ".")
        \o ".amazonaws.com/id/"
        \o From(s.Issuer, Index(s.Issuer, "/") + 1)

GetOIDCProviderARN(s) ==
    LET account == SplitFirst(TrimPrefix(s.RoleArn, "arn:aws:iam::"), ":")
        region == SplitFirst(TrimPrefix(s.Issuer, "https://oidc.eks."), ".")
        id == From(s.Issuer, LastIndex(s.Issuer, "/") + 1)
    IN  "arn:aws:iam::" \o account \o ":oidc-provider/oidc.eks." \o region
            \o ".amazonaws.com/id/" \o id

\* ClusterState.GetSecurityGroupIDs
GetSecurityGroupIDs(s) == s.SecurityGroupIds

\* account ids (no colon), role names, regions (no dot), issuer ids (no slash)
Accounts == {"1234", ""}
RoleNames == {"x", "a:b/c"}
Regions == {"us-east-1", ""}
IssuerIDs == {"ABC123", ""}

\* arn:aws:iam::ACCOUNT:role/...
MkRoleArn(account, role) == "arn:aws:iam::" \o account \o ":role/" \o role

\* https://oidc.eks.REGION.amazonaws.com/id/ID
MkIssuer(region, id) ==
    "https://oidc.eks." \o region \o ".amazonaws.com/id/" \o id

\* the RoleArn and Issuer of the clusters eksctl can list; the empty
\* strings are those of a record whose JSON lacks the fields
Identities ==
    {<<MkRoleArn("1234", "a:b/c"), MkIssuer("us-east-1", "ABC123")>>,
     <<MkRoleArn("", "x"), MkIssuer("", "")>>,
     <<"", "">>}

\* the records `eksctl get cluster -o json` can list
ClusterStates ==
    {[nil |-> FALSE, Name |-> n, RoleArn |-> i[1], Issuer |-> i[2],
      SecurityGroupIds |-> <<"sg-1">>] : n \in ClusterNames, i \in Identities}

\* sequences over S of length at most n
SeqsUpTo(S, n) == UNION {[1..k -> S] : k \in 0..n}

\* the parsed lists of records
StateLists == SeqsUpTo(ClusterStates, MaxStates)

\* the selection loop without its break: the last record of the name
RECURSIVE SelectState_last(_, _, _)
SelectState_last(states, name, i) ==
    IF i > Len(states) THEN NoState
    ELSE IF states[i].Name = name
              /\ SelectState_last(states, name, i + 1).nil
         THEN states[i]
         ELSE SelectState_last(states, name, i + 1)

RECURSIVE SelectState(_, _, _)
\* the loop of runGetCluster from index i on: the first record whose Name
\* is the cluster's, the nil state when there is none
SelectState(states, name, i) ==
    IF i > Len(states) THEN NoState
    ELSE IF states[i].Name = name THEN states[i]
    ELSE SelectState(states, name, i + 1)

(***************************************************************************)
(* eksctl get iamidentitymapping -o json: output, normalisation, parsing.  *)
(***************************************************************************)
Quote == "\""

\* "key":"value"
RenderPair(kv) == Quote \o kv[1] \o Quote \o ":" \o Quote \o kv[2] \o Quote

RECURSIVE RenderPairs(_)
RenderPairs(e) ==
    IF Len(e) = 1 THEN RenderPair(e[1])
    ELSE RenderPair(e[1]) \o "," \o RenderPairs(Tail(e))

RECURSIVE RenderEntries(_)
RenderEntries(es) ==
    IF Len(es) = 1 THEN "{" \o RenderPairs(es[1]) \o "}"
    ELSE "{" \o RenderPairs(es[1]) \o "}," \o RenderEntries(Tail(es))

\* the JSON text of a list of entries, each a non-empty sequence of
\* <<key, string value>> pairs
Render(es) == IF Len(es) = 0 THEN "[]" ELSE "[" \o RenderEntries(es) \o "]"

\* the entries the cluster's aws-auth can hold: a role, a user, the same
\* role under a second username, a role whose name contains "rolearn"
RemoteEntries ==
    { << <<"rolearn", "arn:aws:iam::1:role/a">>, <<"username", "admin">> >>,
      << <<"userarn", "arn:aws:iam::1:user/b">>, <<"username", "bob">> >>,
      << <<"rolearn", "arn:aws:iam::1:role/a">>, <<"username", "dev">> >>,
      << <<"rolearn", "arn:aws:iam::1:role/rolearn-x">>,
         <<"username", "u">> >> }

RemoteEntryLists == SeqsUpTo(RemoteEntries, MaxMappings)

\* stdout of a successful `eksctl get iamidentitymapping -o json`, and one
\* that is not JSON
IAMOutputs == {Render(es) : es \in RemoteEntryLists} \cup {"no mapping"}

\* iamJson2 of runGetIAMIdentityMapping
Normalize(text) ==
    Replace(Replace(text, "rolearn", "iamarn"), "userarn", "iamarn")

\* m[k] = v of a Go map
MapSet(m, k, v) ==
    [j \in DOMAIN m \cup {k} |-> IF j = k THEN v ELSE m[j]]

\* the empty map
EmptyMap == [j \in {} |-> ""]

ParseErr == [ok |-> FALSE, val |-> <<>>]

RECURSIVE ParsePairs(_, _, _, _)
\* t: the text split at its quotes, a key expected at t[i]; cur: the object
\* being read (a repeated key keeps its last value); acc: the objects read
ParsePairs(t, i, cur, acc) ==
    IF i + 3 > Len(t) \/ t[i + 1] # ":" THEN ParseErr
    ELSE LET obj == MapSet(cur, t[i], t[i + 2])
             p == t[i + 3]
         IN  IF p = "," THEN ParsePairs(t, i + 4, obj, acc)
             ELSE IF p = "},{"
                  THEN ParsePairs(t, i + 4, EmptyMap, Append(acc, obj))
             ELSE IF p = "}]" /\ i + 3 = Len(t)
                  THEN [ok |-> TRUE, val |-> Append(acc, obj)]
             ELSE ParseErr

\* json.Unmarshal of the text into []map[string]interface{}, for texts that
\* are not JSON or are arrays of non-empty objects of string values without
\* escapes or white space
Unmarshal(text) ==
    LET t == SplitAll(text, Quote)
    IN  IF t = <<"[]">> THEN [ok |-> TRUE, val |-> <<>>]
        ELSE IF Len(t) < 5 \/ t[1] # "[{" THEN ParseErr
        ELSE ParsePairs(t, 2, EmptyMap, <<>>)

(***************************************************************************)
(* The comparison of readIAMIdentityMapping.                               *)
(***************************************************************************)
\* the less function given to sort.Slice
LessByIamarn(a, b) == StrLess(a["iamarn"], b["iamarn"])

\* s[i], s[j] = s[j], s[i]
Swap(s, i, j) ==
    [k \in DOMAIN s |-> IF k = i THEN s[j] ELSE IF k = j THEN s[i] ELSE s[k]]

RECURSIVE Sink(_, _)
\* the inner loop of the insertion sort: s[j] moves down while it is less
\* than its predecessor
Sink(s, j) ==
    IF j > 1 /\ LessByIamarn(s[j], s[j - 1])
    THEN Sink(Swap(s, j, j - 1), j - 1)
    ELSE s

RECURSIVE InsertionSort(_, _)
\* the insertion sort sort.Slice runs on a slice of fewer than 12 elements,
\* from index i on
InsertionSort(s, i) ==
    IF i > Len(s) THEN s ELSE InsertionSort(Sink(s, i), i + 1)

\* sort.Slice(s, func(i, j) { return s[i]["iamarn"] < s[j]["iamarn"] })
SortByIamarn(s) == InsertionSort(s, 2)

\* cmp.Diff(a, b) of two non-nil slices: "" exactly when they are equal
cmpDiff(a, b) == IF a = b THEN "" ELSE "-remote +current"

\* the entries aws_auth_configmap can declare
LocalEntries ==
    { [iamarn |-> "arn:aws:iam::1:role/a", username |-> "admin"],
      [iamarn |-> "arn:aws:iam::1:user/b", username |-> "bob"],
      [iamarn |-> "arn:aws:iam::1:role/a", username |-> "dev"] }

\* schema.Set.List(): the elements of a set, each once, in the order of
\* their hash codes
LocalLists ==
    {s \in SeqsUpTo(LocalEntries, MaxMappings) :
        \A i, j \in DOMAIN s : i # j => s[i] # s[j]}

\* the orderings of the elements of a list
Perms(s) ==
    {[i \in DOMAIN s |-> s[p[i]]] :
        p \in {q \in [DOMAIN s -> DOMAIN s] :
                  \A i, j \in DOMAIN s : i # j => q[i] # q[j]}}


(***************************************************************************)
(* State.                                                                  *)
(***************************************************************************)
VARIABLES
    op,           \* the function the provider is running, "" before the call
    pc,           \* its position: the step it takes next, or "done"
    store,        \* the resource data d: attribute name -> value
    fs,           \* what the local filesystem holds at kubeconfig_path
    cluster,      \* the *Cluster read from the store or passed by the caller
    arns,         \* arns of readClusterInternal
    iamJson,      \* iamJson.Output of runGetIAMIdentityMapping
    iamJson2,     \* iamJson2 of runGetIAMIdentityMapping
    iams,         \* iams of runGetIAMIdentityMapping / readIAMIdentityMapping
    current,      \* current of readIAMIdentityMapping
    diff,         \* diff of readIAMIdentityMapping
    states,       \* states of runGetCluster
    state,        \* state of loadOIDCProviderURLAndARN
    ret,          \* what the function returned: [cluster, err]
    calls         \* the external calls and store writes made, in order

vars == <<op, pc, store, fs, cluster, arns, iamJson, iamJson2, iams, current,
          diff, states, state, ret, calls>>

\* the locals of the functions
locals == <<cluster, arns, iamJson, iamJson2, iams, current, diff, states,
            state>>

\* nothing returned yet
NoRet == [cluster |-> NoCluster, err |-> NoErr]

\* an entry of calls: the callee and whether it returned without error
Call(name, ok) == [call |-> name, ok |-> ok]

\* a kubeconfig_path attribute: absent from the store (Get returns nil),
\* or a string
KubeconfigPaths ==
    {[isNil |-> TRUE, val |-> ""], [isNil |-> FALSE, val |-> ""],
     [isNil |-> FALSE, val |-> KubePath]}

Init ==
    /\ op = ""
    /\ pc = "idle"
    /\ store \in [name : {"red"},
                  kubeconfig_path : KubeconfigPaths,
                  target_group_arns : {<<>>},
                  aws_auth_configmap : LocalLists,
                  oidc_provider_url : {""},
                  oidc_provider_arn : {""},
                  security_group_ids : {<<>>}]
    /\ fs \in FSStates
    /\ store.kubeconfig_path.val = "" => fs = "absent"
    /\ cluster = NoCluster
    /\ arns = <<>>
    /\ iamJson = ""
    /\ iamJson2 = ""
    /\ iams = <<>>
    /\ current = <<>>
    /\ diff = ""
    /\ states = <<>>
    /\ state = NoState
    /\ ret = NoRet
    /\ calls = <<>>

\* the provider calls f with cluster c, once in a behaviour
Begin(f, first, c) ==
    /\ pc = "idle"
    /\ op' = f
    /\ pc' = first
    /\ cluster' = c
    /\ UNCHANGED <<store, fs, arns, iamJson, iamJson2, iams, current, diff,
                   states, state, ret, calls>>

\* the function returns (c, err)
Return(c, err) ==
    /\ pc' = "done"
    /\ ret' = [cluster |-> c, err |-> err]

\* the provider's Read calls m.readCluster(d)
StartReadCluster == Begin("readCluster", "getTargetGroupARNs", NoCluster)

\* the provider's CustomizeDiff calls m.planCluster(d)
StartPlanCluster == Begin("planCluster", "getTargetGroupARNs", NoCluster)

\* a caller passes its cluster to loadOIDCProviderURLAndARN(d, cluster)
StartLoadOIDC ==
    \E n \in ClusterNames, w \in {"true", "false", "invalid"} :
        Begin("loadOIDCProviderURLAndARN", "IAMWithOIDCEnabled",
              [nil |-> FALSE, Name |-> n, Region |-> "us-east-1",
               withOIDC |-> w])

\* the method behind d.Set: SetNew of the ResourceDiff when d is the
\* DiffReadWrite planCluster takes, Set of the resource data otherwise
DSet(k) == IF op = "planCluster" THEN "SetNew:" \o k ELSE "Set:" \o k

(***************************************************************************)
(* readClusterInternal, as run by readCluster and by planCluster.          *)
(***************************************************************************)
\* what the caller of readClusterInternal does with its error
InternalFailed(err) ==
    IF op = "readCluster"
    THEN Return(NoCluster, Wrap("reading cluster", err))
    ELSE Return(NoCluster, err)

\* arns, err := getTargetGroupARNs(sess, clusterNamePrefix)
getTargetGroupARNs ==
    /\ pc = "getTargetGroupARNs"
    /\ \/ /\ calls' = Append(calls, Call("getTargetGroupARNs", FALSE))
          /\ InternalFailed(Wrap("reading cluster", "aws"))
          /\ UNCHANGED arns
       \/ /\ calls' = Append(calls, Call("getTargetGroupARNs", TRUE))
          /\ arns' \in TargetGroupARNLists
          /\ pc' = "SetTargetGroupARNs"
          /\ UNCHANGED ret
    /\ UNCHANGED <<op, store, fs, cluster, iamJson, iamJson2, iams, current,
                   diff, states, state>>

\* SetTargetGroupARNs returning the error of d.Set instead of logging it
SetTargetGroupARNs_fatal ==
    /\ pc = "SetTargetGroupARNs"
    /\ \/ /\ store' = [store EXCEPT !.target_group_arns = arns]
          /\ calls' = Append(calls, Call(DSet("target_group_arns"), TRUE))
          /\ pc' = "ReadCluster"
          /\ UNCHANGED ret
       \/ /\ UNCHANGED store
          /\ calls' = Append(calls, Call(DSet("target_group_arns"), FALSE))
          /\ InternalFailed("set")
    /\ UNCHANGED <<op, fs, cluster, arns, iamJson, iamJson2, iams, current,
                   diff, states, state>>

\* d.Set(KeyTargetGroupARNs, v): the store takes the value, or Set fails and
\* the failure is logged
SetTargetGroupARNs ==
    /\ pc = "SetTargetGroupARNs"
    /\ \/ /\ store' = [store EXCEPT !.target_group_arns = arns]
          /\ calls' = Append(calls, Call(DSet("target_group_arns"), TRUE))
       \/ /\ UNCHANGED store
          /\ calls' = Append(calls, Call(DSet("target_group_arns"), FALSE))
    /\ pc' = "ReadCluster"
    /\ UNCHANGED <<op, fs, cluster, arns, iamJson, iamJson2, iams, current,
                   diff, states, state, ret>>

\* c, err := ReadCluster(d), and the return of readClusterInternal to
\* readCluster or planCluster
ReadCluster ==
    /\ pc = "ReadCluster"
    /\ \/ /\ calls' = Append(calls, Call("ReadCluster", FALSE))
          /\ InternalFailed("parse")
          /\ UNCHANGED cluster
       \/ /\ calls' = Append(calls, Call("ReadCluster", TRUE))
          /\ \E w \in {"true", "false", "invalid"} :
                 cluster' = [nil |-> FALSE, Name |-> store.name,
                             Region |-> "us-east-1", withOIDC |-> w]
          /\ pc' = IF op = "readCluster" THEN "repairKubeconfig"
                   ELSE "doPlanKubeconfig"
          /\ UNCHANGED ret
    /\ UNCHANGED <<op, store, fs, arns, iamJson, iamJson2, iams, current,
                   diff, states, state>>

(***************************************************************************)
(* planCluster after readClusterInternal.                                  *)
(***************************************************************************)
\* doPlanKubeconfig with the error of m.doPlanKubeconfig dropped
doPlanKubeconfig_errorDropped ==
    /\ pc = "doPlanKubeconfig"
    /\ \/ calls' = Append(calls, Call("doPlanKubeconfig", TRUE))
       \/ calls' = Append(calls, Call("doPlanKubeconfig", FALSE))
    /\ Return(NoCluster, NoErr)
    /\ UNCHANGED <<op, store, fs, locals>>

\* m.doPlanKubeconfig(d) and the return of planCluster
doPlanKubeconfig ==
    /\ pc = "doPlanKubeconfig"
    /\ \/ /\ calls' = Append(calls, Call("doPlanKubeconfig", TRUE))
          /\ Return(NoCluster, NoErr)
       \/ /\ calls' = Append(calls, Call("doPlanKubeconfig", FALSE))
          /\ Return(NoCluster, "plan kubeconfig")
    /\ UNCHANGED <<op, store, fs, locals>>

(***************************************************************************)
(* readCluster after readClusterInternal.                                  *)
(***************************************************************************)
\* path of readCluster
KubeconfigPath ==
    IF store.kubeconfig_path.isNil THEN "" ELSE store.kubeconfig_path.val

\* repairKubeconfig going on after a failed doWriteKubeconfig
repairKubeconfig_failureSwallowed ==
    /\ pc = "repairKubeconfig"
    /\ IF KubeconfigPath # "" /\ IsNotExist(Stat(fs))
       THEN \/ /\ calls' = calls \o <<Call("os.Stat", FALSE),
                                       Call("doWriteKubeconfig", TRUE)>>
               /\ fs' = "file"
            \/ /\ calls' = calls \o <<Call("os.Stat", FALSE),
                                       Call("doWriteKubeconfig", FALSE)>>
               /\ UNCHANGED fs
       ELSE /\ calls' = IF KubeconfigPath = "" THEN calls
                        ELSE Append(calls, Call("os.Stat", Stat(fs) = NoErr))
            /\ UNCHANGED fs
    /\ pc' = "IAMWithOIDCEnabled"
    /\ UNCHANGED <<op, store, locals, ret>>

\* the kubeconfig block of readCluster: the path from the store, os.Stat,
\* os.IsNotExist and doWriteKubeconfig, which writes the file or fails
repairKubeconfig ==
    /\ pc = "repairKubeconfig"
    /\ IF KubeconfigPath # "" /\ IsNotExist(Stat(fs))
       THEN \/ /\ calls' = calls \o <<Call("os.Stat", FALSE),
                                       Call("doWriteKubeconfig", TRUE)>>
               /\ fs' = "file"
               /\ pc' = "IAMWithOIDCEnabled"
               /\ UNCHANGED ret
            \/ /\ calls' = calls \o <<Call("os.Stat", FALSE),
                                       Call("doWriteKubeconfig", FALSE)>>
               /\ Return(NoCluster,
                         Wrap("writing missing kubeconfig on plan", "eksctl"))
               /\ UNCHANGED fs
       ELSE /\ calls' = IF KubeconfigPath = "" THEN calls
                        ELSE Append(calls, Call("os.Stat", Stat(fs) = NoErr))
            /\ pc' = "IAMWithOIDCEnabled"
            /\ UNCHANGED <<fs, ret>>
    /\ UNCHANGED <<op, store, locals>>

(***************************************************************************)
(* readIAMIdentityMapping and loadOIDCProviderURLAndARN.                   *)
(***************************************************************************)
\* the return of readIAMIdentityMapping with err, and what readCluster
\* returns after it
IAMReturn(err) ==
    IF err = NoErr THEN Return(cluster, NoErr)
    ELSE Return(NoCluster,
                Wrap("reading aws-auth via eksctl get iamidentitymaping", err))

\* the return of readIAMIdentityMapping or loadOIDCProviderURLAndARN
GatedReturn(err) ==
    IF op = "readCluster" THEN IAMReturn(err) ELSE Return(NoCluster, err)

\* IAMWithOIDCEnabled without the early return on a disabled flag
IAMWithOIDCEnabled_ignoresFlag ==
    /\ pc = "IAMWithOIDCEnabled"
    /\ IF cluster.withOIDC = "invalid"
       THEN /\ calls' = Append(calls, Call("IAMWithOIDCEnabled", FALSE))
            /\ GatedReturn(
                   Wrap("reading iam.withOIDC setting from cluster.yaml",
                        "yaml"))
       ELSE /\ calls' = Append(calls, Call("IAMWithOIDCEnabled", TRUE))
            /\ pc' = "newEksctlCommand"
            /\ UNCHANGED ret
    /\ UNCHANGED <<op, store, fs, locals>>

\* iamWithOIDCEnabled, err := cluster.IAMWithOIDCEnabled() and the two
\* early returns, of readIAMIdentityMapping and loadOIDCProviderURLAndARN
IAMWithOIDCEnabled ==
    /\ pc = "IAMWithOIDCEnabled"
    /\ CASE cluster.withOIDC = "invalid" ->
              /\ calls' = Append(calls, Call("IAMWithOIDCEnabled", FALSE))
              /\ GatedReturn(
                     Wrap("reading iam.withOIDC setting from cluster.yaml",
                          "yaml"))
         [] cluster.withOIDC = "false" ->
              /\ calls' = Append(calls, Call("IAMWithOIDCEnabled", TRUE))
              /\ GatedReturn(NoErr)
         [] cluster.withOIDC = "true" ->
              /\ calls' = Append(calls, Call("IAMWithOIDCEnabled", TRUE))
              /\ pc' = "newEksctlCommand"
              /\ UNCHANGED ret
    /\ UNCHANGED <<op, store, fs, locals>>

\* cmd, err := newEksctlCommandFromResourceWithRegionAndProfile(d, args...)
\* of runGetIAMIdentityMapping and runGetCluster
newEksctlCommand ==
    /\ pc = "newEksctlCommand"
    /\ \/ /\ calls' = Append(calls, Call("newEksctlCommand", FALSE))
          /\ GatedReturn(
                 Wrap("can not get iamidentitymapping from eks cluster",
                      Wrap("creating get imaidentitymapping command",
                           "profile")))
       \/ /\ calls' = Append(calls, Call("newEksctlCommand", TRUE))
          /\ pc' = "Run"
          /\ UNCHANGED ret
    /\ UNCHANGED <<op, store, fs, locals>>

\* resource.Run(cmd) of runGetIAMIdentityMapping
RunGetIAMIdentityMapping ==
    /\ pc = "Run"
    /\ op = "readCluster"
    /\ \/ /\ calls' = Append(calls,
                             Call("eksctl get iamidentitymapping", FALSE))
          /\ IAMReturn(Wrap("can not get iamidentitymapping from eks cluster",
                            Wrap("running get iamidentitymapping ", "exit 1")))
          /\ UNCHANGED iamJson
       \/ /\ calls' = Append(calls,
                             Call("eksctl get iamidentitymapping", TRUE))
          /\ iamJson' \in IAMOutputs
          /\ pc' = "Unmarshal"
          /\ UNCHANGED ret
    /\ UNCHANGED <<op, store, fs, cluster, arns, iamJson2, iams, current,
                   diff, states, state>>

\* the two strings.Replace and the json.Unmarshal of runGetIAMIdentityMapping
UnmarshalIAMIdentityMapping ==
    /\ pc = "Unmarshal"
    /\ op = "readCluster"
    /\ LET text == Normalize(iamJson)
           parsed == Unmarshal(text)
       IN  /\ iamJson2' = text
           /\ IF parsed.ok
              THEN /\ calls' = Append(calls, Call("json.Unmarshal", TRUE))
                   /\ iams' = parsed.val
                   /\ pc' = "cmpDiff"
                   /\ UNCHANGED ret
              ELSE /\ calls' = Append(calls, Call("json.Unmarshal", FALSE))
                   /\ IAMReturn(
                          Wrap("can not get iamidentitymapping from eks cluster",
                               Wrap("parse iamidentitymapping ", "json")))
                   /\ UNCHANGED iams
    /\ UNCHANGED <<op, store, fs, cluster, arns, iamJson, current, diff,
                   states, state>>

\* CompareIAMIdentityMapping returning an error on a non-empty diff
CompareIAMIdentityMapping_driftFatal ==
    /\ pc = "cmpDiff"
    /\ current' = SortByIamarn(store.aws_auth_configmap)
    /\ iams' = SortByIamarn(iams)
    /\ diff' = cmpDiff(iams', current')
    /\ calls' = Append(calls, Call("cmp.Diff", TRUE))
    /\ IAMReturn(IF diff' = "" THEN NoErr ELSE "aws-auth diff")
    /\ UNCHANGED <<op, store, fs, cluster, arns, iamJson, iamJson2, states,
                   state>>

\* the rest of readIAMIdentityMapping: current from the store, the two
\* sorts, cmp.Diff, the log line of either branch, return nil
CompareIAMIdentityMapping ==
    /\ pc = "cmpDiff"
    /\ current' = SortByIamarn(store.aws_auth_configmap)
    /\ iams' = SortByIamarn(iams)
    /\ diff' = cmpDiff(iams', current')
    /\ calls' = Append(calls, Call("cmp.Diff", TRUE))
    /\ IAMReturn(NoErr)
    /\ UNCHANGED <<op, store, fs, cluster, arns, iamJson, iamJson2, states,
                   state>>

\* resource.Run(cmd) of runGetCluster
RunGetCluster ==
    /\ pc = "Run"
    /\ op = "loadOIDCProviderURLAndARN"
    /\ \/ /\ calls' = Append(calls, Call("eksctl get cluster", FALSE))
          /\ Return(NoCluster,
                    Wrap("can not get iamidentitymapping from eks cluster",
                         Wrap("running get-cluster", "exit 1")))
       \/ /\ calls' = Append(calls, Call("eksctl get cluster", TRUE))
          /\ pc' = "Unmarshal"
          /\ UNCHANGED ret
    /\ UNCHANGED <<op, store, fs, locals>>

\* the error loadOIDCProviderURLAndARN returns when runGetCluster finds no
\* record of the name
NotFound(name) ==
    Wrap("can not get iamidentitymapping from eks cluster",
         "no cluster found: " \o name)

\* the json.Unmarshal of runGetCluster, its selection loop and its return;
\* on success the three d.Set of loadOIDCProviderURLAndARN
UnmarshalClusterStates ==
    /\ pc = "Unmarshal"
    /\ op = "loadOIDCProviderURLAndARN"
    /\ \/ /\ calls' = Append(calls, Call("json.Unmarshal", FALSE))
          /\ Return(NoCluster,
                    Wrap("can not get iamidentitymapping from eks cluster",
                         Wrap("parsing get-cluster output as json ", "json")))
          /\ UNCHANGED <<states, state, store>>
       \/ /\ states' \in StateLists
          /\ state' = SelectState(states', cluster.Name, 1)
          /\ IF state'.nil
             THEN /\ calls' = Append(calls, Call("json.Unmarshal", TRUE))
                  /\ Return(NoCluster, NotFound(cluster.Name))
                  /\ UNCHANGED store
             ELSE /\ calls' = calls \o
                        <<Call("json.Unmarshal", TRUE),
                          Call(DSet("oidc_provider_url"), TRUE),
                          Call(DSet("oidc_provider_arn"), TRUE),
                          Call(DSet("security_group_ids"), TRUE)>>
                  /\ store' = [store EXCEPT
                        !.oidc_provider_url = state'.Issuer,
                        !.oidc_provider_arn = GetOIDCProviderARN(state'),
                        !.security_group_ids = GetSecurityGroupIDs(state')]
                  /\ Return(NoCluster, NoErr)
    /\ UNCHANGED <<op, fs, cluster, arns, iamJson, iamJson2, iams, current,
                   diff>>

Next ==
    \/ StartReadCluster
    \/ StartPlanCluster
    \/ StartLoadOIDC
    \/ getTargetGroupARNs
    \/ SetTargetGroupARNs
    \/ ReadCluster
    \/ doPlanKubeconfig
    \/ repairKubeconfig
    \/ IAMWithOIDCEnabled
    \/ newEksctlCommand
    \/ RunGetIAMIdentityMapping
    \/ UnmarshalIAMIdentityMapping
    \/ CompareIAMIdentityMapping
    \/ RunGetCluster
    \/ UnmarshalClusterStates

Spec == Init /\ [][Next]_vars

(***************************************************************************)
(* Properties.                                                             *)
(***************************************************************************)
\* the positions of the calls of name in cs
Calls(cs, name) == {i \in DOMAIN cs : cs[i].call = name}

\* the number of calls of name in cs
Count(cs, name) == Cardinality(Calls(cs, name))

\* the positions of the failed calls of name in cs
Failed(cs, name) == {i \in Calls(cs, name) : ~cs[i].ok}

\* C1: in readCluster, once the cluster has been read, doWriteKubeconfig is
\* invoked exactly once before the return when the kubeconfig path is
\* non-empty and no file exists there, and is not invoked when the file
\* exists or the path is empty or unset: the step after the read adds one
\* invocation in the first case and none in the second, and no other step
\* adds any.
C1_KubeconfigWrittenIffMissing ==
    [][Count(calls', "doWriteKubeconfig") - Count(calls, "doWriteKubeconfig")
         = IF /\ op = "readCluster"
              /\ pc = "repairKubeconfig"
              /\ KubeconfigPath # ""
              /\ ~FileExists(fs)
           THEN 1 ELSE 0]_vars

\* C2: with IAM-with-OIDC parsed as disabled, readIAMIdentityMapping and
\* loadOIDCProviderURLAndARN return no error at once: the step that reads
\* the flag ends the function with a nil error, leaves the store as it was
\* and is the last call made, so that no eksctl command is ever built or run.
C2_OIDCDisabledIsNoOp ==
    /\ [][(pc = "IAMWithOIDCEnabled" /\ cluster.withOIDC = "false")
            => /\ pc' = "done"
               /\ ret'.err = NoErr
               /\ store' = store
               /\ calls' = Append(calls, Call("IAMWithOIDCEnabled", TRUE))]_vars
    /\ []((~cluster.nil /\ cluster.withOIDC = "false")
            => /\ pc \notin {"newEksctlCommand", "Run", "Unmarshal", "cmpDiff"}
               /\ \A i \in DOMAIN calls :
                      calls[i].call \notin
                          {"newEksctlCommand", "eksctl get iamidentitymapping",
                           "eksctl get cluster", "json.Unmarshal", "cmp.Diff",
                           "Set:oidc_provider_url", "Set:oidc_provider_arn",
                           "Set:security_group_ids"})

C2_Witness ==
    /\ op = "readCluster"
    /\ pc = "done"
    /\ cluster.withOIDC = "false"
    /\ ret.err = NoErr
    /\ ~ret.cluster.nil
    /\ store.target_group_arns = <<"tg-1">>
    /\ calls[Len(calls)] = Call("IAMWithOIDCEnabled", TRUE)

\* C3: once the get-cluster output is parsed, runGetCluster yields the first
\* record of the list whose Name is the cluster's name, whatever other
\* records the list holds, and a "no cluster found" error and no record when
\* no record has that name, the empty list included.
C3_FirstMatchOrNotFound ==
    (/\ op = "loadOIDCProviderURLAndARN"
     /\ pc = "done"
     /\ Failed(calls, "json.Unmarshal") = {}
     /\ Calls(calls, "json.Unmarshal") # {})
       => LET matches == {i \in DOMAIN states : states[i].Name = cluster.Name}
          IN  IF matches # {}
              THEN /\ ~state.nil
                   /\ state.Name = cluster.Name
                   /\ \E i \in matches :
                         /\ \A j \in matches : i <= j
                         /\ state = states[i]
                   /\ ret.err = NoErr
              ELSE /\ state.nil
                   /\ ret.err = NotFound(cluster.Name)

C3_Witness ==
    /\ op = "loadOIDCProviderURLAndARN"
    /\ pc = "done"
    /\ Len(states) = 2
    /\ states[1].Name = cluster.Name
    /\ states[2].Name = cluster.Name
    /\ states[1] # states[2]
    /\ state = states[1]

\* C4: for a role ARN arn:aws:iam::ACCOUNT:role/... and an issuer
\* https://oidc.eks.REGION.amazonaws.com/id/ID, with no colon in ACCOUNT, no
\* dot in REGION and no slash in ID, the OIDC provider ARN that
\* loadOIDCProviderURLAndARN stores, the result of GetOIDCProviderARN, is
\* arn:aws:iam::ACCOUNT:oidc-provider/oidc.eks.REGION.amazonaws.com/id/ID.
C4_OIDCProviderARNFormat ==
    (op = "loadOIDCProviderURLAndARN" /\ pc = "done" /\ ~state.nil)
       => \A account \in Accounts, role \in RoleNames,
             region \in Regions, id \in IssuerIDs :
             (/\ state.RoleArn = MkRoleArn(account, role)
              /\ state.Issuer = MkIssuer(region, id))
                => store.oidc_provider_arn =
                     "arn:aws:iam::" \o account \o ":oidc-provider/oidc.eks."
                         \o region \o ".amazonaws.com/id/" \o id

C4_Witness ==
    /\ op = "loadOIDCProviderURLAndARN"
    /\ pc = "done"
    /\ state.RoleArn = "arn:aws:iam::1234:role/a:b/c"
    /\ state.Issuer = "https://oidc.eks.us-east-1.amazonaws.com/id/ABC123"
    /\ store.oidc_provider_arn =
         "arn:aws:iam::1234:oidc-provider/oidc.eks.us-east-1.amazonaws.com/id/ABC123"

\* C5: drift detection is passive: no step of readIAMIdentityMapping changes
\* the store, and once the flag has parsed and the remote mappings are
\* fetched and parsed, the comparison step computes the diff once and
\* readCluster returns the cluster and a nil error, whether the diff is
\* empty or not.
C5_DriftIsPassive ==
    [][(op = "readCluster"
          /\ pc \in {"IAMWithOIDCEnabled", "newEksctlCommand", "Run",
                     "Unmarshal", "cmpDiff"})
         => /\ store' = store
            /\ pc = "cmpDiff"
                 => /\ pc' = "done"
                    /\ ret' = [cluster |-> cluster, err |-> NoErr]
                    /\ Count(calls', "cmp.Diff") = 1]_vars

C5_Witness ==
    /\ op = "readCluster"
    /\ pc = "done"
    /\ diff # ""
    /\ Len(iams) = 2
    /\ Len(current) = 2
    /\ ret.err = NoErr
    /\ ~ret.cluster.nil
    /\ store.aws_auth_configmap # <<>>

\* the external steps of readCluster, in the order of the code
ReadSteps ==
    <<"getTargetGroupARNs", "ReadCluster", "doWriteKubeconfig",
      "IAMWithOIDCEnabled", "newEksctlCommand",
      "eksctl get iamidentitymapping", "json.Unmarshal">>

\* C6: readCluster is fail-fast and retries nothing: each external step is
\* made at most once and in the order of the code, and a failed step is the
\* last call made, readCluster having returned an error and no cluster.
C6_FailFastNoRetry ==
    op = "readCluster"
       => /\ \A i, j \in DOMAIN calls :
                i < j => \A m, n \in DOMAIN ReadSteps :
                            (calls[i].call = ReadSteps[m]
                               /\ calls[j].call = ReadSteps[n]) => m < n
          /\ \A i \in DOMAIN calls :
                (\E m \in DOMAIN ReadSteps : calls[i].call = ReadSteps[m])
                   /\ ~calls[i].ok
                   => /\ i = Len(calls)
                      /\ pc = "done"
                      /\ ret.err # NoErr
                      /\ ret.cluster.nil

C6_Witness ==
    /\ op = "readCluster"
    /\ pc = "done"
    /\ calls[Len(calls)] = Call("doWriteKubeconfig", FALSE)
    /\ cluster.withOIDC = "true"
    /\ ret.err # NoErr
    /\ ret.cluster.nil
    /\ Count(calls, "eksctl get iamidentitymapping") = 0

\* C7: planCluster runs readClusterInternal (lookup, SetNew of the
\* target-group ARNs on the diff, config parse) and then doPlanKubeconfig,
\* which it calls only when readClusterInternal succeeded; it returns an
\* error exactly when one of the two returned one.
C7_PlanOrder ==
    op = "planCluster"
       => /\ \A i \in Calls(calls, "doPlanKubeconfig") :
                /\ i = 4
                /\ calls[1] = Call("getTargetGroupARNs", TRUE)
                /\ calls[2].call = "SetNew:target_group_arns"
                /\ calls[3] = Call("ReadCluster", TRUE)
          /\ \A i \in DOMAIN calls :
                calls[i].call \in {"getTargetGroupARNs", "ReadCluster",
                                   "SetNew:target_group_arns",
                                   "doPlanKubeconfig"}
          /\ pc = "done"
                => (ret.err # NoErr
                      <=> \/ Failed(calls, "getTargetGroupARNs") # {}
                          \/ Failed(calls, "ReadCluster") # {}
                          \/ Failed(calls, "doPlanKubeconfig") # {})

C7_Witness ==
    /\ op = "planCluster"
    /\ pc = "done"
    /\ calls[Len(calls)] = Call("doPlanKubeconfig", FALSE)
    /\ Len(calls) = 4
    /\ ret.err # NoErr

\* C8: the comparison of readIAMIdentityMapping does not depend on the order
\* of its inputs: reordering the remote list or the declared list before the
\* sorts gives the same empty or non-empty diff, also when entries share an
\* iamarn.
C8_DiffOrderIndependent ==
    (op = "readCluster" /\ Count(calls, "cmp.Diff") = 1)
       => \A p \in Perms(iams), q \in Perms(current) :
             (cmpDiff(SortByIamarn(p), SortByIamarn(q)) = "") <=> (diff = "")

\* C9: the normalisation of runGetIAMIdentityMapping is idempotent and, on
\* well-formed output, lossless: the normalised text is the output with the
\* keys rolearn and userarn renamed to iamarn and nothing else changed.
C9_NormalizeIdempotentLossless ==
    (op = "readCluster" /\ Calls(calls, "json.Unmarshal") # {})
       => /\ Normalize(iamJson2) = iamJson2
          /\ \A es \in RemoteEntryLists :
                iamJson = Render(es)
                   => iamJson2 =
                        Render([i \in DOMAIN es |->
                                  [k \in DOMAIN es[i] |->
                                     IF es[i][k][1] \in {"rolearn", "userarn"}
                                     THEN <<"iamarn", es[i][k][2]>>
                                     ELSE es[i][k]]])

\* C10: a failed write of the target-group ARNs is not fatal: the write is
\* attempted before the configuration is parsed, a successful write stays in
\* the store whatever the parse then does, and after a failed write
\* readClusterInternal still parses the configuration and its result is the
\* parse's.
C10_SetFailureNotFatal ==
    op \in {"readCluster", "planCluster"}
       => /\ \A i \in Calls(calls, "ReadCluster") :
                i = 3 /\ calls[2].call = DSet("target_group_arns")
          /\ \A i \in Calls(calls, DSet("target_group_arns")) :
                calls[i].ok => store.target_group_arns = arns
          /\ \A i \in Failed(calls, DSet("target_group_arns")) :
                /\ Len(calls) = i => (pc = "ReadCluster" /\ ret = NoRet)
                /\ Len(calls) > i
                     => /\ calls[i + 1].call = "ReadCluster"
                        /\ calls[i + 1].ok => ~cluster.nil
                        /\ ~calls[i + 1].ok
                             => /\ pc = "done"
                                /\ ret.err = IF op = "readCluster"
                                             THEN Wrap("reading cluster",
                                                       "parse")
                                             ELSE "parse"

C10_Witness ==
    /\ op = "readCluster"
    /\ pc = "done"
    /\ Failed(calls, "Set:target_group_arns") # {}
    /\ Failed(calls, "ReadCluster") = {}
    /\ arns = <<"tg-1">>
    /\ store.target_group_arns = <<>>
    /\ ret.err = NoErr
    /\ ~ret.cluster.nil
====
